---- MODULE Spec2Model ----
(***************************************************************************)
(* Model of the zettelcourse data sync client (.zetteldev/hf_data.py):     *)
(* the local processed_data folders, the remote dataset repository, the    *)
(* staging directory .hf_download_tmp and the commands status, push,       *)
(* pushall and pull that act on them.                                      *)
(***************************************************************************)
EXTENDS Integers, Sequences, FiniteSets, TLC

\* ------------------------------------------------------------------ bounds

\* The clock runs from tick 0 to MaxTick.
MaxTick == 2
\* Commands and user actions that change files, in one behaviour.
MaxSteps == 4

\* Clock ticks per second: st_mtime is a float, compute_dir_hash hashes int(st_mtime).
TicksPerSec == 2

\* ------------------------------------------------------------------ names

\* The lecture folders, in the order of sorted(LECTURES_DIR.iterdir()).
LectureOrder == <<"01-a", "02-b">>
Lectures == {LectureOrder[i] : i \in 1..Len(LectureOrder)}

\* The non-dot files of a processed_data folder, relative to it, in the order
\* of sorted(directory.rglob("*")): Path("sub/y") < Path("x").
SortedPaths == <<"sub/y", "x">>
Paths == {SortedPaths[i] : i \in 1..Len(SortedPaths)}
\* The paths below the one subdirectory, sub, of processed_data.
InSub(p) == p = "sub/y"

MANIFEST_FILENAME == ".hf_manifest.json"

NoFile == [absent |-> TRUE]
NoManifest == [missing |-> TRUE]
NoOut == [cmd |-> "none"]

\* The sizes, in bytes, a written file has.
Sizes == {1, 2}

VARIABLES
  local,          \* local[l]: lectures/<l>/processed_data
  remote,         \* remote[l]: the folder <l>/ of the dataset repository
  staging,        \* staging[l]: .hf_download_tmp/<l>
  stagingExists,  \* whether .hf_download_tmp exists
  now,            \* the clock, in ticks
  out,            \* what the command that just ran reported
  hist,           \* hist[l]: what happened to the lecture since its last successful push
  steps           \* commands and user actions that changed files so far

vars == <<local, remote, staging, stagingExists, now, out, hist, steps>>

EmptyFiles == [p \in Paths |-> NoFile]
NoDir == [exists |-> FALSE, files |-> EmptyFiles, manifest |-> NoManifest]
NoRemote == [files |-> EmptyFiles, manifest |-> NoManifest]

\* ------------------------------------------------------------------ helpers

Digit(d) ==
  CASE d = 0 -> "0" [] d = 1 -> "1" [] d = 2 -> "2" [] d = 3 -> "3" [] d = 4 -> "4"
    [] d = 5 -> "5" [] d = 6 -> "6" [] d = 7 -> "7" [] d = 8 -> "8" [] d = 9 -> "9"

\* str(n) of a non-negative int.
RECURSIVE Str(_)
Str(n) == IF n < 10 THEN Digit(n) ELSE Str(n \div 10) \o Digit(n % 10)

\* int(file_path.stat().st_mtime)
IntMtime(f) == f.mtime \div TicksPerSec

\* FileUpdate without the update by the size.
FileUpdateWithoutSize(p, f) == p \o Str(IntMtime(f))

\* What one file feeds the hasher: relative path, size, whole-second mtime.
FileUpdate(p, f) == p \o Str(f.size) \o Str(IntMtime(f))

\* The bytes the hasher has seen after the files SortedPaths[i..].
RECURSIVE HashInput(_, _)
HashInput(files, i) ==
  IF i > Len(SortedPaths) THEN ""
  ELSE LET p == SortedPaths[i]
       IN  (IF files[p] = NoFile THEN "" ELSE FileUpdate(p, files[p]))
             \o HashInput(files, i + 1)

\* hasher.hexdigest()[:16], taken as collision-free: never the empty string.
Digest(bytes) == "sha256:" \o bytes

compute_dir_hash(files) == Digest(HashInput(files, 1))

RECURSIVE SumSizes(_, _)
SumSizes(files, i) ==
  IF i > Len(SortedPaths) THEN 0
  ELSE (IF files[SortedPaths[i]] = NoFile THEN 0 ELSE files[SortedPaths[i]].size)
         + SumSizes(files, i + 1)

get_dir_size(files) == SumSizes(files, 1)

\* processed_data.exists() and any(processed_data.iterdir()): dot files count.
HasLocal(d) ==
  d.exists /\ (d.manifest # NoManifest \/ \E p \in Paths : d.files[p] # NoFile)

\* get_lectures(), as a set.
get_lectures == {l \in Lectures : HasLocal(local[l])}

get_local_manifest(l) == local[l].manifest

\* A folder of the repository exists when it holds a file.
RemoteHas(r) == r.manifest # NoManifest \/ \E p \in Paths : r.files[p] # NoFile

\* The top level of the repository as list_repo_tree yields it.
GitAttributes == ".gitattributes"
RepoTree ==
  {[path |-> l, type |-> "directory"] : l \in {k \in Lectures : RemoteHas(remote[k])}}
    \cup {[path |-> GitAttributes, type |-> "file"]}

StartsWithDot(path) == path = GitAttributes
HasDot(path) == path = GitAttributes
HasSlash(path) == FALSE

\* remote_lectures of cmd_status.
StatusRemoteLectures(tree, hasType) ==
  {item.path : item \in
     {i \in tree :
        /\ ~HasSlash(i.path) /\ ~StartsWithDot(i.path)
        /\ \/ hasType /\ i.type = "directory"
           \/ ~hasType /\ ~HasDot(i.path)}}

\* Classify with the two outcomes of the remote comparison exchanged.
ClassifyExchanged(has_local, has_remote, local_hash, local_manifest, remote_hash) ==
  IF has_local /\ has_remote
  THEN IF local_manifest # NoManifest /\ local_manifest.hash = local_hash
       THEN IF local_hash = remote_hash THEN "behind" ELSE "synced"
       ELSE "ahead"
  ELSE IF has_local THEN "local only"
  ELSE IF has_remote THEN "remote only"
  ELSE "unknown"

\* The status of one lecture, as the loop body of cmd_status decides it.
Classify(has_local, has_remote, local_hash, local_manifest, remote_hash) ==
  IF has_local /\ has_remote
  THEN IF local_manifest # NoManifest /\ local_manifest.hash = local_hash
       THEN IF local_hash = remote_hash THEN "synced" ELSE "behind"
       ELSE "ahead"
  ELSE IF has_local THEN "local only"
  ELSE IF has_remote THEN "remote only"
  ELSE "unknown"

\* ------------------------------------------------------------------ history

\* since: "clean" when the last thing that happened to the folder was a push whose
\* upload succeeded, "modified" when since then files of it were only rewritten,
\* "other" otherwise; pushed: the manifest of the last push whose upload reached
\* the repository.
NoHist == [since |-> "never", pushed |-> NoManifest]
Touched(h) == [h EXCEPT !.since = "other"]
\* The folder is as a pull of the whole lecture put it there.
Pulled(h) == [h EXCEPT !.since = "pulled"]

\* ------------------------------------------------------------------ the user

\* The clock advances.
Tick ==
  /\ now < MaxTick
  /\ now' = now + 1
  /\ out' = NoOut
  /\ UNCHANGED <<local, remote, staging, stagingExists, hist, steps>>

\* The user (or a notebook) writes a non-dot file of a lecture's processed_data:
\* new content of any size, mtime the clock's.
WriteFile(l, p, size) ==
  /\ steps < MaxSteps
  /\ LET old == local[l].files[p]
         f == [size |-> size, mtime |-> now]
     IN  /\ local' = [local EXCEPT ![l].exists = TRUE, ![l].files[p] = f]
         /\ hist' = [hist EXCEPT ![l].since =
                       IF old # NoFile /\ @ \in {"clean", "modified"}
                       THEN "modified" ELSE "other"]
  /\ out' = NoOut
  /\ steps' = steps + 1
  /\ UNCHANGED <<remote, staging, stagingExists, now>>

\* The user removes a lecture's processed_data (or works in a fresh checkout,
\* which has none).
RemoveData(l) ==
  /\ steps < MaxSteps
  /\ local[l].exists
  /\ local' = [local EXCEPT ![l] = NoDir]
  /\ hist' = [hist EXCEPT ![l] = Touched(@)]
  /\ out' = NoOut
  /\ steps' = steps + 1
  /\ UNCHANGED <<remote, staging, stagingExists, now>>

\* ------------------------------------------------------------------ status

\* remote_lectures as cmd_status computes it; the except clause empties it.
StatusListing(hasType, listOk) ==
  IF listOk THEN StatusRemoteLectures(RepoTree, hasType) ELSE {}

\* hf_hub_download of <l>/.hf_manifest.json returns: no network error, and the file is there.
Fetched(l, fetchOk) == l \in fetchOk /\ remote[l].manifest # NoManifest

\* StatusRow taking the hash the local manifest records for the folder's own.
StatusRowTrustingManifest(l, remote_lectures, fetchOk) ==
  LET has_local == HasLocal(local[l])
      has_remote == l \in remote_lectures
      local_hash == IF get_local_manifest(l) # NoManifest
                    THEN get_local_manifest(l).hash
                    ELSE compute_dir_hash(local[l].files)
      fetched == l \in fetchOk /\ remote[l].manifest # NoManifest
      remote_size ==
        IF ~has_remote THEN "-"
        ELSE IF fetched THEN Str(remote[l].manifest.size_bytes) ELSE "?"
      remote_hash == IF fetched THEN remote[l].manifest.hash ELSE ""
  IN  [status |-> Classify(has_local, has_remote, local_hash,
                           get_local_manifest(l), remote_hash),
       has_local |-> has_local, has_remote |-> has_remote,
       remote_size |-> remote_size, remote_hash |-> remote_hash]

\* One pass of the loop of cmd_status: the row printed for lecture l.
StatusRow(l, remote_lectures, fetchOk) ==
  LET has_local == HasLocal(local[l])
      has_remote == l \in remote_lectures
      local_hash == compute_dir_hash(local[l].files)
      fetched == Fetched(l, fetchOk)
      remote_size ==
        IF ~has_remote THEN "-"
        ELSE IF fetched THEN Str(remote[l].manifest.size_bytes) ELSE "?"
      remote_hash == IF fetched THEN remote[l].manifest.hash ELSE ""
  IN  [status |-> Classify(has_local, has_remote, local_hash,
                           get_local_manifest(l), remote_hash),
       has_local |-> has_local, has_remote |-> has_remote,
       remote_size |-> remote_size, remote_hash |-> remote_hash]

\* sorted(S): the lectures of S in name order, each once (S is a set).
RECURSIVE sorted(_, _)
sorted(S, i) ==
  IF i > Len(LectureOrder) THEN <<>>
  ELSE (IF LectureOrder[i] \in S THEN <<LectureOrder[i]>> ELSE <<>>)
         \o sorted(S, i + 1)

\* cmd_status. hasType: the items list_repo_tree yields carry a "type" attribute
\* (the installed huggingface_hub decides); listOk: list_repo_tree returns;
\* fetchOk: the lectures whose remote manifest hf_hub_download can be asked for
\* without a network error.
cmd_status(hasType, listOk, fetchOk) ==
  /\ LET remote_lectures == StatusListing(hasType, listOk)
         all_lectures == get_lectures \cup remote_lectures
     IN  out' = [cmd |-> "status", exit |-> 0,
                 remote_lectures |-> remote_lectures,
                 rows |-> [l \in all_lectures |->
                             StatusRow(l, remote_lectures, fetchOk)],
                 printed |-> sorted(all_lectures, 1),
                 fetch_failed |-> {l \in remote_lectures : ~Fetched(l, fetchOk)}]
  /\ UNCHANGED <<local, remote, staging, stagingExists, now, hist, steps>>

\* ------------------------------------------------------------------ push

UploadOutcomes == {"ok", "timed out, landed", "timed out, lost", "error"}
Landed(o) == o \in {"ok", "timed out, landed"}
TimedOut(o) == o \in {"timed out, landed", "timed out, lost"}

\* BuildManifest hashing st_mtime as it is, not its whole seconds.
RECURSIVE UnroundedHashInput(_, _)
UnroundedHashInput(files, i) ==
  IF i > Len(SortedPaths) THEN ""
  ELSE LET p == SortedPaths[i]
       IN  (IF files[p] = NoFile THEN ""
            ELSE p \o Str(files[p].size) \o Str(files[p].mtime))
             \o UnroundedHashInput(files, i + 1)

BuildManifestUnrounded(files) ==
  [hash |-> Digest(UnroundedHashInput(files, 1)), size_bytes |-> get_dir_size(files)]

\* The manifest cmd_push and cmd_pushall build for a folder.
BuildManifest(files) ==
  [hash |-> compute_dir_hash(files), size_bytes |-> get_dir_size(files)]

\* api.upload_folder(folder_path, path_in_repo=lecture): every file of the folder,
\* the manifest among them, is written to the repository; nothing is deleted there.
upload_folder(r, d) ==
  [files |-> [p \in Paths |->
                IF d.files[p] = NoFile THEN r.files[p]
                ELSE [size |-> d.files[p].size]],
   manifest |-> IF d.manifest = NoManifest THEN r.manifest ELSE d.manifest]

\* The exit status of cmd_push after upload_folder ended with outcome o.
PushExit(o) == IF o = "ok" THEN 0 ELSE 1

PushReport(o) ==
  IF o = "ok" THEN "success"
  ELSE IF TimedOut(o) THEN "may have been uploaded, check status"
  ELSE "error uploading"

cmd_push(l, o) ==
  /\ steps < MaxSteps
  /\ steps' = steps + 1
  /\ IF ~HasLocal(local[l])
     THEN /\ out' = [cmd |-> "push", lecture |-> l, exit |-> 1,
                     report |-> "no data", upload |-> "none"]
          /\ UNCHANGED <<local, remote, hist>>
     ELSE LET manifest == BuildManifest(local[l].files)
              saved == [local[l] EXCEPT !.manifest = manifest]
          IN  /\ local' = [local EXCEPT ![l] = saved]
              /\ remote' = IF Landed(o)
                           THEN [remote EXCEPT ![l] = upload_folder(@, saved)]
                           ELSE remote
              /\ hist' = [hist EXCEPT ![l] =
                            [since |-> IF o = "ok" THEN "clean" ELSE "other",
                             pushed |-> IF Landed(o) THEN manifest ELSE @.pushed]]
              /\ out' = [cmd |-> "push", lecture |-> l, exit |-> PushExit(o),
                         report |-> PushReport(o), upload |-> o]
  /\ UNCHANGED <<staging, stagingExists, now>>

\* ------------------------------------------------------------------ pushall

\* remote_lectures of cmd_pushall: only items without a "type" attribute are
\* looked at, and a failed listing leaves the set as it is.
PushallRemoteLectures(tree, hasType) ==
  {item.path : item \in
     {i \in tree :
        /\ ~HasSlash(i.path) /\ ~StartsWithDot(i.path)
        /\ ~hasType /\ ~HasDot(i.path)}}

PushallListing(hasType, listOk) ==
  IF listOk THEN PushallRemoteLectures(RepoTree, hasType) ELSE {}

\* Why cmd_pushall puts local lecture l on its to_push list, "skip" when it does not.
PushallReason(l, remote_lectures, fetchOk) ==
  LET local_hash == compute_dir_hash(local[l].files)
      local_manifest == get_local_manifest(l)
  IN  IF l \notin remote_lectures THEN "local only"
      ELSE IF local_manifest = NoManifest \/ local_manifest.hash # local_hash
           THEN "ahead"
      ELSE IF Fetched(l, fetchOk)
           THEN IF local_hash # remote[l].manifest.hash THEN "ahead" ELSE "skip"
      ELSE "skip"

\* to_push: the local lectures to push, in the order of get_lectures().
RECURSIVE ToPush(_, _, _)
ToPush(i, remote_lectures, fetchOk) ==
  IF i > Len(LectureOrder) THEN <<>>
  ELSE LET l == LectureOrder[i]
           why == IF HasLocal(local[l])
                  THEN PushallReason(l, remote_lectures, fetchOk) ELSE "skip"
       IN  (IF why = "skip" THEN <<>> ELSE <<[lecture |-> l, status |-> why]>>)
             \o ToPush(i + 1, remote_lectures, fetchOk)

\* PushEach giving up at the first upload that fails.
RECURSIVE PushEachUntilFailure(_, _, _)
PushEachUntilFailure(todo, o, st) ==
  IF todo = <<>> THEN st
  ELSE LET l == Head(todo).lecture
           manifest == BuildManifest(st.local[l].files)
           saved == [st.local[l] EXCEPT !.manifest = manifest]
           next == [local |-> [st.local EXCEPT ![l] = saved],
                    remote |-> IF Landed(o[l])
                               THEN [st.remote EXCEPT ![l] = upload_folder(@, saved)]
                               ELSE st.remote,
                    attempted |-> Append(st.attempted, l),
                    failed |-> IF o[l] = "ok" \/ TimedOut(o[l])
                               THEN st.failed ELSE Append(st.failed, l)]
       IN  IF next.failed # <<>> THEN next
           ELSE PushEachUntilFailure(Tail(todo), o, next)

\* The push loop of cmd_pushall over the rest of to_push. st: the local folders,
\* the repository, the lectures tried and the lectures failed so far; o[l]: how
\* upload_folder ends for lecture l.
RECURSIVE PushEach(_, _, _)
PushEach(todo, o, st) ==
  IF todo = <<>> THEN st
  ELSE LET l == Head(todo).lecture
           manifest == BuildManifest(st.local[l].files)
           saved == [st.local[l] EXCEPT !.manifest = manifest]
       IN  PushEach(Tail(todo), o,
             [local |-> [st.local EXCEPT ![l] = saved],
              remote |-> IF Landed(o[l])
                         THEN [st.remote EXCEPT ![l] = upload_folder(@, saved)]
                         ELSE st.remote,
              attempted |-> Append(st.attempted, l),
              failed |-> IF o[l] = "ok" \/ TimedOut(o[l])
                         THEN st.failed ELSE Append(st.failed, l)])

SeqToSet(q) == {q[i] : i \in 1..Len(q)}

\* cmd_pushall. hasType, listOk, fetchOk as for cmd_status; o[l]: how upload_folder
\* ends for each lecture of to_push.
cmd_pushall(hasType, listOk, fetchOk) ==
  /\ steps < MaxSteps
  /\ steps' = steps + 1
  /\ LET remote_lectures == PushallListing(hasType, listOk)
         view == [l \in get_lectures |->
                    StatusRow(l, StatusListing(hasType, listOk), fetchOk).status]
     IN  \E to_push \in {ToPush(1, remote_lectures, fetchOk)} :
         \E o \in [{to_push[i].lecture : i \in 1..Len(to_push)} -> UploadOutcomes] :
         \E end \in {PushEach(to_push, o,
                        [local |-> local, remote |-> remote,
                         attempted |-> <<>>, failed |-> <<>>])} :
         /\ local' = end.local
         /\ remote' = end.remote
         /\ hist' = [l \in Lectures |->
                       IF l \notin SeqToSet(end.attempted) THEN hist[l]
                       ELSE [since |-> IF o[l] = "ok" THEN "clean" ELSE "other",
                             pushed |-> IF Landed(o[l]) THEN end.local[l].manifest
                                        ELSE hist[l].pushed]]
         /\ out' = [cmd |-> "pushall",
                    exit |-> IF end.failed # <<>> THEN 1 ELSE 0,
                    to_push |-> to_push, attempted |-> end.attempted,
                    failed |-> end.failed, uploads |-> o, view |-> view]
  /\ UNCHANGED <<staging, stagingExists, now>>

\* ------------------------------------------------------------------ pull

\* The entries of a folder: its non-dot files and its manifest.
Entries == Paths \cup {MANIFEST_FILENAME}
Present(d) ==
  {p \in Paths : d.files[p] # NoFile}
    \cup (IF d.manifest # NoManifest THEN {MANIFEST_FILENAME} ELSE {})

\* The folder d cut down to the entries in keep.
Only(d, keep) ==
  [d EXCEPT !.files = [p \in Paths |-> IF p \in keep THEN d.files[p] ELSE NoFile],
            !.manifest = IF MANIFEST_FILENAME \in keep THEN d.manifest ELSE NoManifest]

\* Download fetching no dot file.
DownloadWithoutManifest(st, r, want) ==
  [files |-> [p \in Paths |->
                IF p \in want /\ r.files[p] # NoFile
                THEN [size |-> r.files[p].size, mtime |-> now]
                ELSE st.files[p]],
   manifest |-> st.manifest]

\* snapshot_download(local_dir=.hf_download_tmp, allow_patterns=...) for one
\* lecture: the entries in want that the repository holds are written below
\* .hf_download_tmp/<l>, over what is there, with the clock as their mtime.
Download(st, r, want) ==
  [files |-> [p \in Paths |->
                IF p \in want /\ r.files[p] # NoFile
                THEN [size |-> r.files[p].size, mtime |-> now]
                ELSE st.files[p]],
   manifest |-> IF MANIFEST_FILENAME \in want /\ r.manifest # NoManifest
                THEN r.manifest ELSE st.manifest]

\* allow_patterns "<lecture>/**" and "<lecture>/<subpath>/**".
LecturePattern == Entries
SubPattern == {p \in Paths : InSub(p)}

\* Replace without the rmtree: the staged entries are moved into the target d.
ReplaceWithoutRmtree(d, staged) ==
  [exists |-> TRUE,
   files |-> [p \in Paths |->
                IF staged.files[p] # NoFile THEN staged.files[p] ELSE d.files[p]],
   manifest |-> IF staged.manifest # NoManifest THEN staged.manifest ELSE d.manifest]

\* shutil.rmtree(target_base) of the target d, if it exists, followed by
\* source.rename(target_base).
Replace(d, staged) ==
  [exists |-> TRUE, files |-> staged.files, manifest |-> staged.manifest]

\* shutil.rmtree(target) followed by source.rename(target), for target_base / subpath;
\* target.parent.mkdir(parents=True) has made processed_data.
ReplaceSub(d, staged) ==
  [d EXCEPT !.exists = TRUE,
            !.files = [p \in Paths |-> IF InSub(p) THEN staged.files[p] ELSE @[p]]]

PullFailures == {"none", "download", "rmtree", "rename"}

\* What cmd_pull reports; prior: the local folders as they were when it started.
PullOut(mode, l, fail, moved, prior) ==
  [cmd |-> "pull", mode |-> mode, lecture |-> l,
   exit |-> IF fail = "none" THEN 0 ELSE 1,
   failed_at |-> fail, moved |-> moved, prior |-> prior]

\* cmd_pull with path = <l>. fail: the step that raises, if any; part: after a
\* failed download, the entries that had been fetched; after a failed rmtree,
\* the entries of the target that are still there.
PullLecture(l, fail, part) ==
  /\ steps < MaxSteps
  /\ steps' = steps + 1
  /\ hist' = [hist EXCEPT ![l] =
                IF fail = "none"
                   /\ Present(Download(staging[l], remote[l], LecturePattern)) # {}
                THEN Pulled(@) ELSE Touched(@)]
  /\ UNCHANGED <<remote, now>>
  /\ IF fail = "download"
     THEN /\ part \subseteq Present(remote[l])
          /\ staging' = [staging EXCEPT ![l] = Download(@, remote[l], part)]
          /\ stagingExists' = (stagingExists \/ part # {})
          /\ UNCHANGED local
          /\ out' = PullOut("lecture", l, fail, {}, local)
     ELSE \E staged \in {Download(staging[l], remote[l], LecturePattern)} :
          LET sourceExists == Present(staged) # {}
          IN  CASE fail = "rmtree" ->
                     /\ sourceExists /\ local[l].exists
                     /\ part \subseteq Present(local[l])
                     /\ local' = [local EXCEPT ![l] = Only(@, part)]
                     /\ staging' = [staging EXCEPT ![l] = staged]
                     /\ stagingExists' = TRUE
                     /\ out' = PullOut("lecture", l, fail, {}, local)
                [] fail = "rename" ->
                     /\ sourceExists /\ part = {}
                     /\ local' = [local EXCEPT ![l] = NoDir]
                     /\ staging' = [staging EXCEPT ![l] = staged]
                     /\ stagingExists' = TRUE
                     /\ out' = PullOut("lecture", l, fail, {}, local)
                [] fail = "none" ->
                     /\ part = {}
                     /\ local' = IF sourceExists
                                 THEN [local EXCEPT ![l] = Replace(@, staged)]
                                 ELSE local
                     /\ staging' = [k \in Lectures |-> NoRemote]
                     /\ stagingExists' = FALSE
                     /\ out' = PullOut("lecture", l, fail,
                                       IF sourceExists THEN {l} ELSE {}, local)

\* cmd_pull with path = <l>/sub.
PullSub(l, fail, part) ==
  /\ steps < MaxSteps
  /\ steps' = steps + 1
  /\ hist' = [hist EXCEPT ![l] = Touched(@)]
  /\ UNCHANGED <<remote, now>>
  /\ IF fail = "download"
     THEN /\ part \subseteq Present(remote[l]) \cap SubPattern
          /\ staging' = [staging EXCEPT ![l] = Download(@, remote[l], part)]
          /\ stagingExists' = (stagingExists \/ part # {})
          /\ UNCHANGED local
          /\ out' = PullOut("sub", l, fail, {}, local)
     ELSE \E staged \in {Download(staging[l], remote[l], SubPattern)} :
          LET sourceExists == Present(staged) \cap SubPattern # {}
              targetExists == Present(local[l]) \cap SubPattern # {}
          IN  CASE fail = "rmtree" ->
                     /\ sourceExists /\ targetExists
                     /\ part \subseteq Present(local[l]) \cap SubPattern
                     /\ local' = [local EXCEPT ![l] =
                                    Only(@, (Present(@) \ SubPattern) \cup part)]
                     /\ staging' = [staging EXCEPT ![l] = staged]
                     /\ stagingExists' = TRUE
                     /\ out' = PullOut("sub", l, fail, {}, local)
                [] fail = "rename" ->
                     /\ sourceExists /\ part = {}
                     /\ local' = [local EXCEPT ![l] =
                                    [Only(@, Present(@) \ SubPattern) EXCEPT !.exists = TRUE]]
                     /\ staging' = [staging EXCEPT ![l] = staged]
                     /\ stagingExists' = TRUE
                     /\ out' = PullOut("sub", l, fail, {}, local)
                [] fail = "none" ->
                     /\ part = {}
                     /\ local' = IF sourceExists
                                 THEN [local EXCEPT ![l] = ReplaceSub(@, staged)]
                                 ELSE local
                     /\ staging' = [k \in Lectures |-> NoRemote]
                     /\ stagingExists' = FALSE
                     /\ out' = PullOut("sub", l, fail,
                                       IF sourceExists THEN {l} ELSE {}, local)

\* cmd_pull with --all. fail: the step that raises, if any; at: the lecture whose
\* move raises; done: the lectures moved into place before that (tmp_dir.iterdir()
\* yields the staged folders in any order), or after a failed download the
\* lectures fetched; part: what a failed rmtree leaves of its target.
PullAll(fail, at, done, part) ==
  /\ steps < MaxSteps
  /\ steps' = steps + 1
  /\ UNCHANGED <<remote, now>>
  /\ IF fail = "download"
     THEN /\ done \subseteq {l \in Lectures : RemoteHas(remote[l])}
          /\ (at \in done \/ done = {})
          /\ part = {}
          /\ staging' = [l \in Lectures |->
                           IF l \in done
                           THEN Download(staging[l], remote[l], LecturePattern)
                           ELSE staging[l]]
          /\ stagingExists' = (stagingExists \/ done # {})
          /\ UNCHANGED <<local, hist>>
          /\ out' = PullOut("all", "*", fail, {}, local)
     ELSE \E staged \in {[l \in Lectures |->
                            Download(staging[l], remote[l], LecturePattern)]} :
          LET sources == {l \in Lectures : Present(staged[l]) # {}}
              Moved(l) == Replace(local[l], staged[l])
          IN  IF fail = "none"
              THEN /\ done = sources /\ (at \in done \/ done = {})
                   /\ part = {}
                   /\ local' = [l \in Lectures |->
                                  IF l \in sources THEN Moved(l) ELSE local[l]]
                   /\ hist' = [l \in Lectures |->
                                 IF l \in sources THEN Touched(hist[l]) ELSE hist[l]]
                   /\ staging' = [k \in Lectures |-> NoRemote]
                   /\ stagingExists' = FALSE
                   /\ out' = PullOut("all", "*", fail, sources, local)
              ELSE /\ at \in sources /\ done \subseteq sources \ {at}
                   /\ IF fail = "rmtree"
                      THEN local[at].exists /\ part \subseteq Present(local[at])
                      ELSE part = {}
                   /\ local' = [l \in Lectures |->
                                  IF l \in done THEN Moved(l)
                                  ELSE IF l # at THEN local[l]
                                  ELSE IF fail = "rmtree" THEN Only(local[l], part)
                                  ELSE NoDir]
                   /\ hist' = [l \in Lectures |->
                                 IF l \in done \cup {at}
                                 THEN Touched(hist[l]) ELSE hist[l]]
                   /\ staging' = [l \in Lectures |->
                                    IF l \in done THEN NoRemote ELSE staged[l]]
                   /\ stagingExists' = TRUE
                   /\ out' = PullOut("all", "*", fail, done, local)

\* ------------------------------------------------------------------ the system

Init ==
  /\ local = [l \in Lectures |-> NoDir]
  /\ remote = [l \in Lectures |-> NoRemote]
  /\ staging = [l \in Lectures |-> NoRemote]
  /\ stagingExists = FALSE
  /\ now = 0
  /\ out = NoOut
  /\ hist = [l \in Lectures |-> NoHist]
  /\ steps = 0

\* What the network and the installed library can do to one listing command.
ListingInputs ==
  {<<hasType, listOk, fetchOk>> \in BOOLEAN \X BOOLEAN \X SUBSET Lectures :
     /\ ~listOk => hasType /\ fetchOk = {}
     /\ \A l \in fetchOk : RemoteHas(remote[l])}

UserWrites == \E l \in Lectures, p \in Paths, size \in Sizes : WriteFile(l, p, size)
Status == \E i \in ListingInputs : cmd_status(i[1], i[2], i[3])
Push == \E l \in Lectures, o \in UploadOutcomes : cmd_push(l, o)
PushAll == \E i \in ListingInputs : cmd_pushall(i[1], i[2], i[3])

UserRemoves == \E l \in Lectures : RemoveData(l)

\* status and push, with the clock running.
NextSync == Tick \/ UserWrites \/ UserRemoves \/ Status \/ Push
SpecSync == Init /\ [][NextSync]_vars

\* push and pushall.
NextPushAll == UserWrites \/ Push \/ PushAll
SpecPushAll == Init /\ [][NextPushAll]_vars

Pull ==
  \/ \E l \in Lectures, fail \in PullFailures, part \in SUBSET Entries :
       PullLecture(l, fail, part)
  \/ \E l \in Lectures, fail \in PullFailures, part \in SUBSET SubPattern :
       PullSub(l, fail, part)
  \/ \E fail \in PullFailures, at \in Lectures, done \in SUBSET Lectures,
        part \in SUBSET Entries : PullAll(fail, at, done, part)

\* push and pull.
NextPull == UserWrites \/ Push \/ Pull
SpecPull == Init /\ [][NextPull]_vars

\* push, pull of a whole lecture and status, with the clock running.
PullWhole ==
  \E l \in Lectures, fail \in PullFailures, part \in SUBSET Entries :
    PullLecture(l, fail, part)
NextPullStatus == Tick \/ UserWrites \/ Push \/ PullWhole \/ Status
SpecPullStatus == Init /\ [][NextPullStatus]_vars

\* ------------------------------------------------------------------ claims

StatusRan == out.cmd = "status"
Listed(l) == l \in DOMAIN out.rows
Reported(l) == out.rows[l].status

\* C1: every row of cmd_status follows the table of the classifier: a lecture with
\* neither local data nor a remote folder is not listed; local data only reads
\* "local only"; a remote folder only reads "remote only"; with both, a missing
\* local manifest or one whose hash is not the folder's reads "ahead", a manifest
\* hash equal to the folder's and to the remote hash reads "synced", and anything
\* else reads "behind".
C1_StatusTable ==
  StatusRan =>
    \A l \in Lectures :
      LET has_local == HasLocal(local[l])
          has_remote == l \in out.remote_lectures
          local_hash == compute_dir_hash(local[l].files)
          m == local[l].manifest
          stale == m = NoManifest \/ m.hash # local_hash
      IN  /\ Listed(l) <=> (has_local \/ has_remote)
          /\ has_local /\ ~has_remote => Reported(l) = "local only"
          /\ ~has_local /\ has_remote => Reported(l) = "remote only"
          /\ has_local /\ has_remote /\ stale => Reported(l) = "ahead"
          /\ has_local /\ has_remote /\ ~stale /\ local_hash = out.rows[l].remote_hash
               => Reported(l) = "synced"
          /\ has_local /\ has_remote /\ ~stale /\ local_hash # out.rows[l].remote_hash
               => Reported(l) = "behind"

\* A status listing with a lecture behind a remote version that was fetched, and
\* a lecture that is not listed.
C1_Witness ==
  /\ StatusRan
  /\ \E l \in Lectures :
       Listed(l) /\ Reported(l) = "behind" /\ out.rows[l].remote_hash # ""
  /\ \E l \in Lectures : ~Listed(l)

\* The status query saw the lecture in its listing of the repository and read
\* the lecture's remote manifest.
SawRemote(l) ==
  /\ l \in out.remote_lectures
  /\ Listed(l) /\ out.rows[l].remote_size # "?"

\* C2: a status query that follows a push with a successful upload, nothing having
\* touched the lecture's processed_data in between, and that reaches the
\* repository (lists the lecture, reads its remote manifest) reports "synced".
C2_SyncedAfterPush ==
  StatusRan =>
    \A l \in Lectures :
      hist[l].since = "clean" /\ SawRemote(l) => Reported(l) = "synced"

\* A status query right after a successful push of a folder with both files,
\* reaching the repository.
C2_Witness ==
  /\ StatusRan
  /\ \E l \in Lectures :
       /\ hist[l].since = "clean" /\ SawRemote(l)
       /\ local[l].files["x"] # NoFile /\ local[l].files["sub/y"] # NoFile

\* The folder's fingerprint is not the one its last successful push recorded.
FingerprintChanged(l) ==
  compute_dir_hash(local[l].files) # hist[l].pushed.hash

\* C3 as stated: when files of a lecture were rewritten after a successful push,
\* a status query that reaches the repository reports "ahead".
C3_AheadAfterAnyModification ==
  StatusRan =>
    \A l \in Lectures :
      hist[l].since = "modified" /\ SawRemote(l) => Reported(l) = "ahead"

\* C3, amended: when files of a lecture were rewritten after a successful push,
\* a status query that lists the lecture as remote reports "ahead" if the rewrite
\* changed the folder's fingerprint (the paths, sizes and whole-second mtimes of
\* its non-dot files), and does not report "ahead" if it left the fingerprint as
\* it was: it reports "synced" when it reads the remote manifest.
C3_AheadAfterFingerprintChange ==
  StatusRan =>
    \A l \in Lectures :
      hist[l].since = "modified" /\ l \in out.remote_lectures
        => /\ FingerprintChanged(l) => Reported(l) = "ahead"
           /\ ~FingerprintChanged(l) /\ SawRemote(l) => Reported(l) = "synced"

\* A rewrite that changed nothing but the whole second of a file's mtime, seen
\* by the status query that follows.
C3_Witness ==
  /\ StatusRan
  /\ \E l \in Lectures :
       /\ hist[l].since = "modified" /\ SawRemote(l)
       /\ FingerprintChanged(l)
       /\ get_dir_size(local[l].files) = hist[l].pushed.size_bytes

PushallRan == out.cmd = "pushall"
Selected == {out.to_push[i].lecture : i \in 1..Len(out.to_push)}

\* C4: cmd_pushall selects exactly the local lectures that the classifier of
\* cmd_status, on the same local and remote state and with the same answers of
\* the repository, does not report as "synced".
C4_PushallSelectsNonSynced ==
  PushallRan => Selected = {l \in DOMAIN out.view : out.view[l] # "synced"}

\* C5: the local manifest of every lecture is the one of the last push of that
\* lecture whose upload reached the repository (none before the first).
C5_ManifestOfLastSuccessfulPush ==
  \A l \in Lectures : local[l].manifest = hist[l].pushed

PullRan == out.cmd = "pull"

\* The folder d holds what the repository's folder r holds, and nothing else.
HoldsExactly(d, r) ==
  /\ d.exists
  /\ \A p \in Paths :
       IF r.files[p] = NoFile THEN d.files[p] = NoFile
       ELSE d.files[p] # NoFile /\ d.files[p].size = r.files[p].size
  /\ d.manifest = r.manifest

\* C6: after a successful pull of a lecture (by name or with --all) that moved
\* the lecture into place, processed_data holds exactly the entries of the
\* lecture's folder in the repository.
C6_PullReplacesContents ==
  PullRan /\ out.exit = 0 /\ out.mode \in {"lecture", "all"} =>
    \A l \in out.moved : HoldsExactly(local[l], remote[l])

\* A successful pull by name into a folder that held a file the repository does
\* not have.
C6_Witness ==
  /\ PullRan /\ out.exit = 0 /\ out.mode = "lecture"
  /\ \E l \in out.moved :
       \E p \in Paths : out.prior[l].files[p] # NoFile /\ remote[l].files[p] = NoFile

\* C7: when cmd_pull has ended, .hf_download_tmp does not exist.
C7_StagingGoneAfterPull == PullRan => ~stagingExists

\* C8: when cmd_pull by name or with --all has ended, every processed_data is
\* as it was before the command or holds exactly the lecture's entries in the
\* repository.
C8_PullIsAtomic ==
  PullRan /\ out.mode \in {"lecture", "all"} =>
    \A l \in Lectures :
      local[l] = out.prior[l] \/ HoldsExactly(local[l], remote[l])

PushRan == out.cmd = "push"

\* C9: cmd_push reports an upload that timed out as possibly uploaded and does
\* not exit nonzero for it; every other upload error makes it exit nonzero.
C9_TimeoutNotFatal ==
  PushRan =>
    /\ TimedOut(out.upload) =>
         out.report = "may have been uploaded, check status" /\ out.exit = 0
    /\ out.upload = "error" => out.exit # 0

\* The lectures of to_push, in order, whose upload ended in one of the ways bad.
RECURSIVE SelectedWhere(_, _)
SelectedWhere(i, bad) ==
  IF i > Len(out.to_push) THEN <<>>
  ELSE (IF out.uploads[out.to_push[i].lecture] \in bad
        THEN <<out.to_push[i].lecture>> ELSE <<>>) \o SelectedWhere(i + 1, bad)

NotLanded == {o \in UploadOutcomes : ~Landed(o)}
PlainError == {"error"}

AllAttempted == out.attempted = [i \in 1..Len(out.to_push) |-> out.to_push[i].lecture]

\* C10 as stated: cmd_pushall tries every lecture of to_push, lists the lectures
\* whose upload failed (did not reach the repository), and exits nonzero exactly
\* when there is one.
C10_FailuresListed ==
  PushallRan =>
    /\ AllAttempted
    /\ out.failed = SelectedWhere(1, NotLanded)
    /\ out.exit # 0 <=> \E l \in Selected : out.uploads[l] \in NotLanded

\* C10, amended: cmd_pushall tries every lecture of to_push whatever happened to
\* the ones before it, lists the lectures whose upload raised an error that is
\* not a timeout, and exits nonzero exactly when there is one; an upload that
\* timed out is not listed and does not make the exit status nonzero.
C10_ErrorsListed ==
  PushallRan =>
    /\ AllAttempted
    /\ out.failed = SelectedWhere(1, PlainError)
    /\ out.exit # 0 <=> \E l \in Selected : out.uploads[l] \in PlainError

\* Two lectures selected, the upload of the first failed, the second went up.
C10_Witness ==
  /\ PushallRan
  /\ Len(out.to_push) = 2
  /\ out.uploads[out.to_push[1].lecture] = "error"
  /\ out.uploads[out.to_push[2].lecture] = "ok"
  /\ remote[out.to_push[2].lecture].manifest # NoManifest

\* ------------------------------------------------------------------ C11

\* How many rows the listing printed for lecture l.
RowsFor(l) == Cardinality({i \in 1..Len(out.printed) : out.printed[i] = l})

\* C11 as stated: a failed fetch of a remote manifest does not abort the listing
\* (every lecture that is local or remote gets exactly one row, no other lecture
\* gets one), the affected lecture's remote size reads "?", and its status does
\* not speak of a known remote version: it is neither "synced" nor "behind".
C11_FetchFailureIsUnknown ==
  StatusRan /\ out.fetch_failed # {} =>
    /\ \A l \in Lectures :
         RowsFor(l) = IF l \in get_lectures \cup out.remote_lectures THEN 1 ELSE 0
    /\ \A l \in out.fetch_failed :
         /\ out.rows[l].remote_size = "?"
         /\ Reported(l) \notin {"synced", "behind"}

\* ------------------------------------------------------------------ C12

\* compute_dir_hash on two snapshots of a processed_data folder, held as the
\* folders of the two lectures. Sizes in bytes, mtimes in clock ticks (half
\* seconds): 6 and 7 fall in second 3, 46 in second 23.
SnapA == LectureOrder[1]
SnapB == LectureOrder[2]
SnapshotSizes == {1, 12}
SnapshotMtimes == {6, 7, 46}
SnapshotFiles ==
  [Paths -> {NoFile} \cup [size : SnapshotSizes, mtime : SnapshotMtimes]]
\* A dot file the folder may hold next to its files.
SomeManifest ==
  [lecture |-> SnapA, hash |-> Digest(""), size_bytes |-> 0, pushed_at |-> 0]
Snapshots ==
  [exists : {TRUE}, files : SnapshotFiles, manifest : {NoManifest, SomeManifest}]

InitHash ==
  /\ local \in [Lectures -> Snapshots]
  /\ remote = [l \in Lectures |-> NoRemote]
  /\ staging = [l \in Lectures |-> NoRemote]
  /\ stagingExists = FALSE
  /\ now = 0
  /\ out = NoOut
  /\ hist = [l \in Lectures |-> NoHist]
  /\ steps = 0

HashBoth ==
  /\ out = NoOut
  /\ out' = [cmd |-> "hash",
             a |-> compute_dir_hash(local[SnapA].files),
             b |-> compute_dir_hash(local[SnapB].files)]
  /\ UNCHANGED <<local, remote, staging, stagingExists, now, hist, steps>>

NextHash == HashBoth
SpecHash == InitHash /\ [][NextHash]_vars

HashRan == out.cmd = "hash"
FilesA == local[SnapA].files
FilesB == local[SnapB].files
SamePaths == \A p \in Paths : (FilesA[p] = NoFile) <=> (FilesB[p] = NoFile)
\* The (relative path, size, mtime) triples of the non-dot files are the same.
SameTriples == FilesA = FilesB
\* The two snapshots hold the same files and one of them differs in size or mtime.
SizeOrMtimeDiffers ==
  /\ SamePaths
  /\ \E p \in Paths :
       /\ FilesA[p] # NoFile
       /\ FilesA[p].size # FilesB[p].size \/ FilesA[p].mtime # FilesB[p].mtime

\* C12 as stated: equal (path, size, mtime) triples give equal hashes, and a file
\* whose size or mtime differs between the snapshots gives different hashes.
C12_HashTellsSnapshotsApart ==
  HashRan =>
    /\ SameTriples => out.a = out.b
    /\ SizeOrMtimeDiffers => out.a # out.b

\* What the hasher is fed for a file that is there.
Fed(f) == [size |-> f.size, sec |-> IntMtime(f)]
\* Every file has the same size and the same whole-second mtime in both.
SameFed ==
  /\ SamePaths
  /\ \A p \in Paths : FilesA[p] # NoFile => Fed(FilesA[p]) = Fed(FilesB[p])
\* The snapshots hold the same files, and differ in one file only, and there
\* either in the size only or in the whole-second mtime only.
OneFieldDiffers ==
  /\ SamePaths
  /\ \E p \in Paths :
       /\ FilesA[p] # NoFile
       /\ \A q \in Paths \ {p} : FilesA[q] # NoFile => Fed(FilesA[q]) = Fed(FilesB[q])
       /\ \/ /\ FilesA[p].size # FilesB[p].size
             /\ IntMtime(FilesA[p]) = IntMtime(FilesB[p])
          \/ /\ FilesA[p].size = FilesB[p].size
             /\ IntMtime(FilesA[p]) # IntMtime(FilesB[p])

\* C12, amended: snapshots whose non-dot files have the same paths, sizes and
\* whole-second mtimes hash equal, whatever their dot files and the fractions of
\* a second of their mtimes; snapshots that differ in one file only, in its size
\* alone or in its whole-second mtime alone, hash different.
C12_HashOfSizeAndWholeSeconds ==
  HashRan =>
    /\ SameFed => out.a = out.b
    /\ OneFieldDiffers => out.a # out.b

\* Two snapshots with both files, one file differing in size only, hashed apart;
\* or differing in the fraction of a second only, hashed alike.
C12_Witness ==
  /\ HashRan
  /\ \A p \in Paths : FilesA[p] # NoFile /\ FilesB[p] # NoFile
  /\ FilesA["sub/y"] = FilesB["sub/y"]
  /\ FilesA["x"].size = 1 /\ FilesB["x"].size = 12
  /\ FilesA["x"].mtime = 6 /\ FilesB["x"].mtime = 7
  /\ local[SnapA].manifest # local[SnapB].manifest
  /\ out.a # out.b

\* A size and an mtime that change together and feed the hasher the same bytes.
C12_SameBytes ==
  /\ HashRan
  /\ SizeOrMtimeDiffers
  /\ \E p \in Paths :
       /\ FilesA[p] # NoFile
       /\ FilesA[p].size # FilesB[p].size
       /\ IntMtime(FilesA[p]) # IntMtime(FilesB[p])
  /\ out.a = out.b

\* ------------------------------------------------------------------ create_lecture.py

\* Names are sequences of characters. In the scaffolder's specification `local`
\* is the working tree the script sees: whether lectures/ exists, its entries by
\* name, and the template notebooks under .zetteldev/templates; `hist` counts
\* the folders created.
UpperCase == <<"A", "B", "C", "D", "E", "F", "G", "H", "I", "J", "K", "L", "M",
               "N", "O", "P", "Q", "R", "S", "T", "U", "V", "W", "X", "Y", "Z">>
LowerCase == <<"a", "b", "c", "d", "e", "f", "g", "h", "i", "j", "k", "l", "m",
               "n", "o", "p", "q", "r", "s", "t", "u", "v", "w", "x", "y", "z">>
Digits == <<"0", "1", "2", "3", "4", "5", "6", "7", "8", "9">>

\* str.lower() of one character.
lower(c) ==
  IF \E i \in 1..26 : UpperCase[i] = c
  THEN LowerCase[CHOOSE i \in 1..26 : UpperCase[i] = c]
  ELSE c

\* s.replace(a, b) for one-character a and b.
replace(s, a, b) == [i \in 1..Len(s) |-> IF s[i] = a THEN b ELSE s[i]]

\* slugify replacing spaces only.
slugifySpacesOnly(name) ==
  replace([i \in 1..Len(name) |-> lower(name[i])], " ", "-")

\* name.lower().replace(" ", "-").replace("_", "-")
slugify(name) ==
  replace(replace([i \in 1..Len(name) |-> lower(name[i])], " ", "-"), "_", "-")

\* The place of the first "-" in s, Len(s) + 1 when there is none.
FirstHyphen(s) ==
  IF \E i \in 1..Len(s) : s[i] = "-"
  THEN CHOOSE i \in 1..Len(s) : s[i] = "-" /\ \A j \in 1..(i - 1) : s[j] # "-"
  ELSE Len(s) + 1

\* s.split("-")[0]
FirstField(s) == SubSeq(s, 1, FirstHyphen(s) - 1)

IsDigit(c) == \E d \in 1..10 : Digits[d] = c
DigitValue(c) == (CHOOSE d \in 1..10 : Digits[d] = c) - 1

\* int(s) for a run of decimal digits.
RECURSIVE DigitsValue(_)
DigitsValue(s) ==
  IF s = <<>> THEN 0
  ELSE 10 * DigitsValue(SubSeq(s, 1, Len(s) - 1)) + DigitValue(s[Len(s)])

ValueError == -1
\* int(s): ValueError for the empty string and for anything but digits.
int(s) ==
  IF s # <<>> /\ \A i \in 1..Len(s) : IsDigit(s[i]) THEN DigitsValue(s) ELSE ValueError

\* str(n) as characters.
RECURSIVE Decimal(_)
Decimal(n) ==
  IF n < 10 THEN <<Digits[n + 1]>> ELSE Decimal(n \div 10) \o <<Digits[(n % 10) + 1]>>

\* f"{n:02d}"
Format02d(n) == IF n < 10 THEN <<"0">> \o Decimal(n) ELSE Decimal(n)

Max(S) == CHOOSE m \in S : \A k \in S : k <= m

\* get_next_lecture_number() on the working tree t.
get_next_lecture_number(t) ==
  IF ~t.exists THEN 1
  ELSE LET existing ==
             {int(FirstField(n)) :
                n \in {k \in DOMAIN t.entries :
                         t.entries[k].is_dir /\ int(FirstField(k)) # ValueError}}
       IN  Max(existing \cup {0}) + 1

\* f"{lecture_num:02d}-{slug}"
FolderName(t, name) ==
  Format02d(get_next_lecture_number(t)) \o <<"-">> \o slugify(name)

\* lecture_path.exists() answering for directories only.
PathIsDir(t, folder_name) ==
  t.exists /\ folder_name \in DOMAIN t.entries /\ t.entries[folder_name].is_dir

\* lecture_path.exists()
PathExists(t, folder_name) ==
  t.exists /\ folder_name \in DOMAIN t.entries

StudyTemplate == "study_template.ipynb"
PracticeTemplate == "practice_template.ipynb"

\* The notebook create_lecture puts in the folder: the template's copy, or the
\* minimal notebook with the lecture's title.
Notebook(t, template, name, notebook_type) ==
  IF template \in t.templates
  THEN [kind |-> "copy", of |-> template]
  ELSE [kind |-> "minimal", title |-> name, type |-> notebook_type]

\* The folder create_lecture makes.
NewLecture(t, name, folder_name) ==
  [is_dir |-> TRUE,
   contents |->
     [c \in {"processed_data", "figures", "study.ipynb", "practice.ipynb", "Snakefile"} |->
        CASE c = "processed_data" -> [kind |-> "dir"]
          [] c = "figures" -> [kind |-> "dir"]
          [] c = "study.ipynb" -> Notebook(t, StudyTemplate, name, "study")
          [] c = "practice.ipynb" -> Notebook(t, PracticeTemplate, name, "practice")
          [] c = "Snakefile" -> [kind |-> "snakefile", folder |-> folder_name]]]

WithEntry(t, n, e) ==
  [t EXCEPT !.exists = TRUE,
            !.entries = [k \in DOMAIN t.entries \cup {n} |->
                           IF k = n THEN e ELSE t.entries[k]]]

\* create_lecture(name)
create_lecture(name) ==
  /\ steps < MaxSteps
  /\ LET folder_name == FolderName(local, name)
     IN  IF PathExists(local, folder_name)
         THEN /\ out' = [cmd |-> "create", name |-> name, exit |-> 1, prior |-> local]
              /\ UNCHANGED <<local, hist>>
         ELSE /\ local' = WithEntry(local, folder_name,
                                    NewLecture(local, name, folder_name))
              /\ out' = [cmd |-> "create", name |-> name, exit |-> 0, prior |-> local]
              /\ hist' = [hist EXCEPT !.created = @ + 1]
  /\ steps' = steps + 1
  /\ UNCHANGED <<remote, staging, stagingExists, now>>

\* The names the user gives.
IntroToSystems ==
  <<"I", "n", "t", "r", "o", " ", "t", "o", " ", "S", "y", "s", "t", "e", "m", "s">>
AdvancedTopics ==
  <<"A", "d", "v", "a", "n", "c", "e", "d", " ", "T", "o", "p", "i", "c", "s">>
LectureNames == {IntroToSystems, AdvancedTopics, <<"a", "_", "B">>}

\* What lectures/ may hold before: folders with and without a number, and plain
\* files.
PriorFolder == [is_dir |-> TRUE, contents |-> [c \in {} |-> [kind |-> "dir"]]]
PlainFile == [is_dir |-> FALSE, contents |-> [c \in {} |-> [kind |-> "dir"]]]
PriorEntries ==
  [n \in {<<"0", "7", "-", "o", "l", "d">>, <<"n", "o", "t", "e", "s">>,
          <<"0", "1", "-", "a", "-", "b">>, <<"0", "8", "-", "a", "-", "b">>} |->
     IF FirstField(n) \in {<<"0", "1">>, <<"0", "8">>} THEN PlainFile ELSE PriorFolder]
Restrict(f, S) == [k \in S |-> f[k]]

WorkingTrees ==
  {[exists |-> e, entries |-> Restrict(PriorEntries, S), templates |-> tp] :
     e \in BOOLEAN, S \in SUBSET DOMAIN PriorEntries,
     tp \in SUBSET {StudyTemplate, PracticeTemplate}}

InitScaffold ==
  /\ local \in {t \in WorkingTrees : ~t.exists => t.entries = <<>>}
  /\ hist = [from_empty |-> local.entries = <<>>, created |-> 0]
  /\ remote = [l \in Lectures |-> NoRemote]
  /\ staging = [l \in Lectures |-> NoRemote]
  /\ stagingExists = FALSE
  /\ now = 0
  /\ out = NoOut
  /\ steps = 0

NextScaffold == \E name \in LectureNames : create_lecture(name)
SpecScaffold == InitScaffold /\ [][NextScaffold]_vars

\* ------------------------------------------------------------------ C13

CreateRan == out.cmd = "create"
NewFolders == DOMAIN local.entries \ DOMAIN out.prior.entries
\* The numbers the folders of lectures/ carried before the command.
NumericPrefixes ==
  {int(FirstField(n)) :
     n \in {k \in DOMAIN out.prior.entries :
              out.prior.entries[k].is_dir /\ int(FirstField(k)) # ValueError}}
AfterFirstHyphen(s) == SubSeq(s, FirstHyphen(s) + 1, Len(s))

\* C13: a successful create_lecture adds one folder "<NN>-<slug>": NN is two
\* digits (more for numbers over 99) reading one more than the largest numeric
\* prefix of the folders there before, 1 when there were none; the slug is the
\* name with letters lower-cased and every space and underscore a hyphen; when
\* lectures/ started empty the k-th creation is numbered k, and "Intro to
\* Systems" first gives 01-intro-to-systems, "Advanced Topics" second gives
\* 02-advanced-topics.
C13_FolderName ==
  CreateRan /\ out.exit = 0 =>
    /\ Cardinality(NewFolders) = 1
    /\ \A f \in NewFolders :
         LET NN == FirstField(f)
             slug == AfterFirstHyphen(f)
             number == IF NumericPrefixes = {} THEN 1 ELSE Max(NumericPrefixes) + 1
         IN  /\ FirstHyphen(f) <= Len(f)
             /\ int(NN) = number
             /\ Len(NN) >= 2 /\ (number < 100 => Len(NN) = 2)
             /\ Len(slug) = Len(out.name)
             /\ \A i \in 1..Len(slug) :
                  slug[i] = IF out.name[i] \in {" ", "_"} THEN "-"
                            ELSE lower(out.name[i])
             /\ hist.from_empty => number = hist.created
             /\ hist.from_empty /\ hist.created = 1 /\ out.name = IntroToSystems
                  => f = <<"0", "1", "-", "i", "n", "t", "r", "o", "-", "t", "o", "-",
                           "s", "y", "s", "t", "e", "m", "s">>
             /\ hist.from_empty /\ hist.created = 2 /\ out.name = AdvancedTopics
                  => f = <<"0", "2", "-", "a", "d", "v", "a", "n", "c", "e", "d", "-",
                           "t", "o", "p", "i", "c", "s">>

\* "Advanced Topics" created second from an empty lectures/, after "Intro to
\* Systems".
C13_Witness ==
  /\ CreateRan /\ out.exit = 0
  /\ hist.from_empty /\ hist.created = 2 /\ out.name = AdvancedTopics
  /\ <<"0", "1", "-", "i", "n", "t", "r", "o", "-", "t", "o", "-",
       "s", "y", "s", "t", "e", "m", "s">> \in DOMAIN out.prior.entries

\* A name with an underscore and a capital, numbered after a folder 07-old.
C13_WitnessUnderscore ==
  /\ CreateRan /\ out.exit = 0
  /\ <<"0", "8", "-", "a", "-", "b">> \in NewFolders

\* ------------------------------------------------------------------ C14

\* C14: when the folder create_lecture computes is already there, it exits 1 and
\* the working tree is as it was: nothing created, nothing overwritten.
C14_ExistingTargetUntouched ==
  CreateRan =>
    \A name \in LectureNames :
      out.name = name /\ FolderName(out.prior, name) \in DOMAIN out.prior.entries
        => out.exit = 1 /\ local = out.prior

\* create_lecture met a plain file of the name it computed, next to a numbered
\* folder.
C14_Witness ==
  /\ CreateRan /\ out.exit = 1
  /\ FolderName(out.prior, out.name) \in DOMAIN out.prior.entries
  /\ ~out.prior.entries[FolderName(out.prior, out.name)].is_dir
  /\ get_next_lecture_number(out.prior) = 8

\* ------------------------------------------------------------------ render_notebook.py

\* In the renderer's specification `local` is what the script finds and leaves:
\* the input notebook (or none) and the files at the output paths.
Whitespace == {" ", "\t", "\n"}

\* line.lstrip(), line.rstrip(), line.strip()
RECURSIVE lstrip(_)
lstrip(line) ==
  IF line # <<>> /\ line[1] \in Whitespace THEN lstrip(Tail(line)) ELSE line
RECURSIVE rstrip(_)
rstrip(line) ==
  IF line # <<>> /\ line[Len(line)] \in Whitespace
  THEN rstrip(SubSeq(line, 1, Len(line) - 1)) ELSE line
strip(line) == rstrip(lstrip(line))

\* line.startswith(prefix)
startswith(line, prefix) ==
  Len(line) >= Len(prefix) /\ SubSeq(line, 1, Len(prefix)) = prefix

\* A line counted as a directive when it starts with "#".
IsHashLine(line) == startswith(strip(line), <<"#">>)

\* line.strip().startswith('#|')
IsDirective(line) == startswith(strip(line), <<"#", "|">>)

\* src.split('\n')
RECURSIVE split(_)
split(src) ==
  IF \E i \in 1..Len(src) : src[i] = "\n"
  THEN LET i == CHOOSE k \in 1..Len(src) :
                  src[k] = "\n" /\ \A j \in 1..(k - 1) : src[j] # "\n"
       IN  <<SubSeq(src, 1, i - 1)>> \o split(SubSeq(src, i + 1, Len(src)))
  ELSE <<src>>

\* '\n'.join(lines)
RECURSIVE join(_)
join(lines) ==
  IF lines = <<>> THEN <<>>
  ELSE IF Len(lines) = 1 THEN lines[1]
  ELSE lines[1] \o <<"\n">> \o join(Tail(lines))

KeepLine(line) == ~IsDirective(line)

\* The loop body of strip_nbdev_directives: one cell. `form` is the type of
\* cell['source']: a list of lines or one string.
StripCell(cell) ==
  IF cell.cell_type = "code"
  THEN IF cell.form = "list"
       THEN [cell EXCEPT !.source = SelectSeq(@, KeepLine)]
       ELSE [cell EXCEPT !.source = join(SelectSeq(split(@), KeepLine))]
  ELSE cell

\* strip_nbdev_directives on the loaded notebook: nb['cells'].
strip_nbdev_directives(nb) == [i \in 1..Len(nb) |-> StripCell(nb[i])]

\* Path(...).suffix: from the last dot of the name, unless the name has none,
\* starts with its only dot, or ends with it.
suffix(name) ==
  IF \E i \in 1..Len(name) : name[i] = "."
  THEN LET i == CHOOSE k \in 1..Len(name) :
                  name[k] = "." /\ \A j \in (k + 1)..Len(name) : name[j] # "."
       IN  IF i > 1 /\ i < Len(name) THEN SubSeq(name, i, Len(name)) ELSE <<>>
  ELSE <<>>

Unsupported == "unsupported"
DotPdf == <<".", "p", "d", "f">>
DotHtml == <<".", "h", "t", "m", "l">>
DotHtm == <<".", "h", "t", "m">>

\* output_format taking everything that is not .pdf for html.
OutputFormatOrHtml(output_ext) == IF output_ext = DotPdf THEN "pdf" ELSE "html"

\* output_format from output_ext, the lower-cased suffix.
OutputFormat(output_ext) ==
  IF output_ext = DotPdf THEN "pdf"
  ELSE IF output_ext \in {DotHtml, DotHtm} THEN "html"
  ELSE Unsupported

QuartoOutcomes == {"ok", "fails", "no output"}
NoSubprocess == [ran |-> FALSE]
NoNotebook == [exists |-> FALSE]

\* main() of render_notebook.py with an input and an output argument; quarto is
\* what the subprocess does if it is run.
render_notebook(output_path, quarto) ==
  /\ out = NoOut
  /\ LET output_ext == [i \in 1..Len(suffix(output_path)) |->
                          lower(suffix(output_path)[i])]
         output_format == OutputFormat(output_ext)
         cleaned_nb == [exists |-> TRUE,
                        cells |-> strip_nbdev_directives(local.input.cells)]
         report(exit, wrote, sub) ==
           [cmd |-> "render", output_path |-> output_path, exit |-> exit,
            temp_notebook |-> wrote, subprocess |-> sub]
     IN  IF ~local.input.exists
         THEN /\ out' = report(1, NoNotebook, NoSubprocess)
              /\ UNCHANGED local
         ELSE IF output_format = Unsupported
         THEN /\ out' = report(1, NoNotebook, NoSubprocess)
              /\ UNCHANGED local
         ELSE IF quarto # "ok"
         THEN /\ out' = report(1, cleaned_nb,
                               [ran |-> TRUE, to |-> output_format, result |-> quarto])
              /\ UNCHANGED local
         ELSE /\ out' = report(0, cleaned_nb,
                               [ran |-> TRUE, to |-> output_format, result |-> quarto])
              /\ local' = [local EXCEPT !.outputs =
                             [q \in DOMAIN @ \cup {output_path} |->
                                IF q = output_path
                                THEN [format |-> output_format, of |-> cleaned_nb]
                                ELSE @[q]]]
  /\ UNCHANGED <<remote, staging, stagingExists, now, hist, steps>>

\* The source lines the notebooks are made of, without their line ends.
ExportLine == <<"#", "|", "e", "x", "p", "o", "r", "t">>
CodeLine == <<"x", " ", "=", " ", "1">>
IndentedDirective == <<" ", "#", "|", "h">>
CommentLine == <<"#", " ", "|">>
SourceLines == {ExportLine, CodeLine, IndentedDirective, CommentLine}
\* The most source lines a notebook holds, all cells together.
MaxLines == 3
LineLists == UNION {[1..n -> SourceLines] : n \in 0..MaxLines}

\* A cell as json.load gives it; `lines` keeps the lines the source was written
\* from: each with its line end in the list form, joined by line ends in the
\* string form.
Cells ==
  {[cell_type |-> t, form |-> "list", lines |-> ls,
    source |-> [i \in 1..Len(ls) |-> ls[i] \o <<"\n">>]] :
     t \in {"code", "markdown"}, ls \in LineLists}
  \cup
  {[cell_type |-> t, form |-> "str", lines |-> ls, source |-> join(ls)] :
     t \in {"code", "markdown"}, ls \in LineLists}
\* Notebooks of one cell, and of two.
Notebooks ==
  {<<c>> : c \in Cells}
  \cup UNION {{<<c, d>> : d \in {k \in Cells : Len(c.lines) + Len(k.lines) <= MaxLines}} :
               c \in Cells}

OutputPaths ==
  {<<"o", ".", "p", "d", "f">>, <<"o", ".", "P", "D", "F">>,
   <<"o", ".", "h", "t", "m", "l">>, <<"o", ".", "h", "t", "m">>,
   <<"o", ".", "t", "x", "t">>, <<"o">>, <<".", "p", "d", "f">>}

InitRender ==
  /\ local \in [input : {[exists |-> TRUE, cells |-> nb] : nb \in Notebooks}
                           \cup {NoNotebook},
                 outputs : {<<>>}]
  /\ remote = [l \in Lectures |-> NoRemote]
  /\ staging = [l \in Lectures |-> NoRemote]
  /\ stagingExists = FALSE
  /\ now = 0
  /\ out = NoOut
  /\ hist = [l \in Lectures |-> NoHist]
  /\ steps = 0

NextRender ==
  \E output_path \in OutputPaths, quarto \in QuartoOutcomes :
    render_notebook(output_path, quarto)
SpecRender == InitRender /\ [][NextRender]_vars

\* ------------------------------------------------------------------ C15

RenderRan == out.cmd = "render"
\* The path ends with the given characters, in either case.
EndsWith(path, ext) ==
  /\ Len(path) >= Len(ext)
  /\ \A i \in 1..Len(ext) : lower(path[Len(path) - Len(ext) + i]) = ext[i]
Rejected ==
  out.exit # 0 /\ ~out.temp_notebook.exists /\ ~out.subprocess.ran

Loaded == local.input.cells
Cleaned == out.temp_notebook.cells
WroteCleaned == RenderRan /\ out.temp_notebook.exists

\* The line begins with the directive prefix.
BeginsWithPrefix(line) == Len(line) >= 2 /\ line[1] = "#" /\ line[2] = "|"
\* The first characters of the line that are not blank are the directive prefix.
PrefixAfterBlanks(line) ==
  \E k \in 1..(Len(line) - 1) :
    /\ line[k] = "#" /\ line[k + 1] = "|"
    /\ \A j \in 1..(k - 1) : line[j] \in Whitespace
NotPrefixed(line) == ~BeginsWithPrefix(line)
NotPrefixedAfterBlanks(line) == ~PrefixAfterBlanks(line)
WithLineEnds(ls) == [i \in 1..Len(ls) |-> ls[i] \o <<"\n">>]

C16_WitnessOtherCells ==
  /\ WroteCleaned
  /\ Len(Loaded) = 2
  /\ Loaded[1].cell_type = "markdown" /\ Loaded[1].lines = <<ExportLine>>
  /\ Loaded[2].cell_type = "code" /\ Loaded[2].form = "str"
  /\ Loaded[2].source = CommentLine \o <<"\n">> \o IndentedDirective
  /\ Cleaned[2].source = CommentLine

\* ------------------------------------------------------------------ C17

\* The lecture's folder is as a successful pull of the whole lecture left it.
JustPulled(l) == hist[l].since = "pulled"

C17_WitnessSynced ==
  /\ StatusRan
  /\ \E l \in Lectures :
       JustPulled(l) /\ SawRemote(l) /\ Reported(l) = "synced"

\* The same without the condition that the query reads the remote manifest.
C17_NotBehindWhateverTheQuery ==
  StatusRan =>
    \A l \in Lectures : JustPulled(l) /\ Listed(l) => Reported(l) # "behind"

====
